---------------------------- MODULE Spec2Model ----------------------------
(***************************************************************************)
(* Model of hmm's line-boundary seeking (src/src/seek.rs), prefix binary   *)
(* search (src/src/bsearch.rs) and entry cursor (src/src/entries.rs).      *)
(*                                                                         *)
(* A stream is a byte sequence `data` plus a cursor `pos`.  Offsets are    *)
(* 0-based as in the source: the byte at offset i is data[i+1].            *)
(***************************************************************************)
EXTENDS Integers, Sequences, FiniteSets, TLC

VARIABLES
    data,    \* the bytes of the file behind the stream
    pos,     \* the stream's cursor (SeekFrom::Current(0))
    op,      \* the operation that ran last
    pre,     \* the cursor before that operation ran
    arg,     \* the argument of that operation (offset, query, date)
    ret,     \* the Option<u64> / u64 it returned (NONE for None)
    ent,     \* the Result<Option<Entry>> it returned
    nav,     \* observer of the next_entry / prev_entry conversation
    out      \* what the binaries produced: entries hmmq printed, messages
             \* hmm accepted

vars == <<data, pos, op, pre, arg, ret, ent, nav, out>>

----------------------------------------------------------------------------
(* Bounds of the model.                                                    *)

MaxLen == 5        \* longest raw byte file of the cursor-primitive runs
PastEnd == 2       \* how far beyond end-of-file a start position may lie
MaxRecs == 3       \* most records of a journal file
MaxTs == 3         \* latest timestamp of a record
MaxMsg == 1        \* longest message of a record
MaxLines == 4      \* most lines of a file searched by prefix
MaxFill == 1       \* most bytes of a line after its leading key byte
MaxQuery == 1      \* longest query prefix
MaxAllRecs == 2    \* most records of a file the operations are mixed on
MaxAllTs == 2      \* latest timestamp of a record of such a file
MaxAllMsg == 1     \* longest message of a record of such a file
MaxBadLines == 3   \* most lines of a file that holds undecodable lines
MaxBadTs == 2      \* latest timestamp of a decodable line of such a file
MaxWrites == 3     \* most records hmm invocations append to a file
MaxClock == 3      \* latest reading of the system clock
MaxSharedRecs == 2  \* most records of a file two invocations write to
MaxQRecs == 3      \* most records of a file hmmq is run on
MaxQTs == 2        \* latest timestamp of a record of such a file
MaxQMsg == 1       \* longest message of a record of such a file
MaxCount == 2      \* largest --first or --last given to hmmq
MaxProbeLines == 3 \* most lines of a file searched probe by probe
MaxProbeQuery == 2 \* longest query prefix of such a search
MaxProbes == 12    \* the count of loop passes stops here

----------------------------------------------------------------------------
(* Bytes.                                                                  *)

LF == 10           \* 0x0a, the line-feed byte
NUL == 0           \* what `let mut buf = [0; 1]` holds before any read
LetterA == 97      \* 'a'

NONE == 0 - 1      \* Option::None of an Option<u64>
ERR == 0 - 2       \* Err(e) of a Result<Option<u64>>

RawBytes == {LF, NUL, LetterA}

SeqsUpTo(S, n) == UNION {[1..k -> S] : k \in 0..n}

----------------------------------------------------------------------------
(* std::io: Read::read_exact with a one-byte buffer.  On success the byte  *)
(* is returned and the cursor advances; at or past end-of-file it fails    *)
(* with UnexpectedEof, the buffer keeps its old content and the cursor     *)
(* stays where it was.                                                     *)

read_exact1(d, p) ==
    IF p < Len(d)
    THEN [ok |-> TRUE, byte |-> d[p + 1], pos |-> p + 1]
    ELSE [ok |-> FALSE, byte |-> NUL, pos |-> p]

----------------------------------------------------------------------------
(* seek.rs: start_of_current_line                                          *)

\* Mutant: the backward scan stops at the last line that holds a byte, taking
\* a line-feed in the file's last position for the end of that line.
RECURSIVE current_line_loop_skipfinal(_, _)
current_line_loop_skipfinal(d, p) ==
    IF p = 0
    THEN [ret |-> 0, pos |-> 0]
    ELSE LET r == read_exact1(d, p)
         IN  IF r.ok /\ r.byte = LF /\ p + 1 < Len(d)
             THEN [ret |-> p + 1, pos |-> r.pos]
             ELSE current_line_loop_skipfinal(d, p - 1)

\* The `loop` of start_of_current_line; the cursor equals pos at its head.
RECURSIVE current_line_loop(_, _)
current_line_loop(d, p) ==
    IF p = 0
    THEN [ret |-> 0, pos |-> 0]
    ELSE LET r == read_exact1(d, p)
         IN  IF r.ok /\ r.byte = LF
             THEN [ret |-> p + 1, pos |-> r.pos]
             ELSE current_line_loop(d, p - 1)

\* Mutant: a line-feed under the cursor is not backed up past; it is taken
\* for the end of the line before the one the cursor is in.
start_of_current_line_nobackup(d, p) ==
    current_line_loop(d, p)

\* Mutant: on a line-feed at offset 0 the stream is not put back to 0; it
\* stays after the byte just read.
start_of_current_line_norewind(d, p) ==
    LET r == read_exact1(d, p)
        buf == IF r.ok THEN r.byte ELSE NUL
    IN  IF buf = LF
        THEN IF p = 0
             THEN [ret |-> 0, pos |-> r.pos]
             ELSE current_line_loop(d, p - 1)
        ELSE current_line_loop(d, p)

start_of_current_line(d, p) ==
    LET r == read_exact1(d, p)
        buf == IF r.ok THEN r.byte ELSE NUL
    IN  IF buf = LF
        THEN IF p = 0
             THEN [ret |-> 0, pos |-> 0]
             ELSE current_line_loop(d, p - 1)
        ELSE current_line_loop(d, p)

----------------------------------------------------------------------------
(* seek.rs: start_of_next_line                                             *)

\* Mutant: the offset of the line-feed itself is returned, `pos` without its
\* `pos += 1`.
RECURSIVE start_of_next_line_at_lf(_, _)
start_of_next_line_at_lf(d, p) ==
    LET r == read_exact1(d, p)
    IN  IF ~r.ok
        THEN [ret |-> NONE, pos |-> r.pos]
        ELSE IF r.byte = LF
             THEN [ret |-> p, pos |-> r.pos]
             ELSE start_of_next_line_at_lf(d, p + 1)

RECURSIVE start_of_next_line(_, _)
start_of_next_line(d, p) ==
    LET r == read_exact1(d, p)
    IN  IF ~r.ok
        THEN [ret |-> NONE, pos |-> r.pos]
        ELSE IF r.byte = LF
             THEN [ret |-> p + 1, pos |-> r.pos]
             ELSE start_of_next_line(d, p + 1)

----------------------------------------------------------------------------
(* seek.rs: start_of_prev_line                                             *)

\* The `loop` of start_of_prev_line; the cursor equals p at its head.
RECURSIVE prev_line_loop(_, _)
prev_line_loop(d, p) ==
    IF p = 0
    THEN [ret |-> 0, pos |-> 0]
    ELSE LET r == read_exact1(d, p - 1)
         IN  IF ~r.ok
             THEN [ret |-> ERR, pos |-> r.pos]
             ELSE IF r.byte = LF
                  THEN [ret |-> p, pos |-> r.pos]
                  ELSE prev_line_loop(d, p - 1)

start_of_prev_line(d, p) ==
    LET c == start_of_current_line(d, p)
    IN  IF c.pos = 0
        THEN [ret |-> NONE, pos |-> 0]
        ELSE prev_line_loop(d, c.pos - 1)

----------------------------------------------------------------------------
(* What the results are measured against: the line structure of a file.    *)

\* s is the first byte of a line: offset 0, or the byte after a line-feed.
IsLineStart(d, s) == s = 0 \/ (s >= 1 /\ s <= Len(d) /\ d[s] = LF)

\* The start of the line that holds offset p, a line-feed belonging to the
\* line it ends.
LineStartOf(d, p) ==
    CHOOSE s \in 0..p : /\ IsLineStart(d, s)
                        /\ \A t \in (s + 1)..p : ~IsLineStart(d, t)

\* The start of the last line that has at least one byte.
LastLineStart(d) == LineStartOf(d, Len(d) - 1)

NoEntry == [kind |-> "none", datetime |-> 0, message |-> <<>>]

----------------------------------------------------------------------------
(* entry.rs: the line codec.  A line is a timestamp column, a comma and a  *)
(* message column holding a quoted string.  Timestamps are modelled one    *)
(* digit wide; the parsed DateTime is the digit's value.                   *)

Comma == 44        \* ','
Quote == 34        \* '"'
LetterX == 120     \* 'x'
Digit0 == 48       \* '0'

SomeEntry(dt, msg) == [kind |-> "some", datetime |-> dt, message |-> msg]
ErrEntry == [kind |-> "err", datetime |-> 0, message |-> <<>>]

\* Offsets (1-based indexes) of the commas of a row.
Commas(row) == {i \in 1..Len(row) : row[i] = Comma}

\* chrono::DateTime::parse_from_rfc3339 on the first column.
DateOk(col) == Len(col) = 1 /\ col[1] > Digit0 /\ col[1] <= Digit0 + 9

\* serde_json::from_str on the second column: a quoted string.
MsgOk(col) ==
    /\ Len(col) >= 2
    /\ col[1] = Quote
    /\ col[Len(col)] = Quote
    /\ \A i \in 2..(Len(col) - 1) : col[i] # Quote

\* TryFrom<quick_csv::Row> for Entry, on the bytes read_line put in buf.
decode(buf) ==
    LET row == IF Len(buf) > 0 /\ buf[Len(buf)] = LF
               THEN SubSeq(buf, 1, Len(buf) - 1) ELSE buf
        cs == Commas(row)
    IN  IF cs = {}
        THEN ErrEntry
        ELSE LET c1 == CHOOSE i \in cs : \A j \in cs : i <= j
                 rest == cs \ {c1}
                 c2 == IF rest = {} THEN Len(row) + 1
                       ELSE CHOOSE i \in rest : \A j \in rest : i <= j
                 date == SubSeq(row, 1, c1 - 1)
                 msg == SubSeq(row, c1 + 1, c2 - 1)
             IN  IF DateOk(date) /\ MsgOk(msg)
                 THEN SomeEntry(date[1] - Digit0, SubSeq(msg, 2, Len(msg) - 1))
                 ELSE ErrEntry

----------------------------------------------------------------------------
(* entries.rs: Entries                                                     *)

\* BufRead::read_line: the bytes from p up to and including the next
\* line-feed, or up to end-of-file; nothing at or past end-of-file.
RECURSIVE line_end(_, _)
line_end(d, p) ==
    IF p >= Len(d) THEN Len(d)
    ELSE IF d[p + 1] = LF THEN p + 1
    ELSE line_end(d, p + 1)

\* Mutant: the line-feed that ends the line is neither returned nor consumed.
read_line_nolf(d, p) ==
    IF p >= Len(d)
    THEN [buf |-> <<>>, pos |-> p]
    ELSE LET e == line_end(d, p)
         IN  IF d[e] = LF
             THEN [buf |-> SubSeq(d, p + 1, e - 1), pos |-> e - 1]
             ELSE [buf |-> SubSeq(d, p + 1, e), pos |-> e]

read_line(d, p) ==
    IF p >= Len(d)
    THEN [buf |-> <<>>, pos |-> p]
    ELSE [buf |-> SubSeq(d, p + 1, line_end(d, p)), pos |-> line_end(d, p)]

\* Mutant: on reading nothing the cursor is put at end-of-file, SeekFrom::End(0).
next_entry_end0(d, p) ==
    LET l == read_line(d, p)
    IN  IF l.buf = <<>>
        THEN [res |-> NoEntry, pos |-> Len(d)]
        ELSE [res |-> decode(l.buf), pos |-> l.pos]

\* Mutant: a line that fails to decode is dropped and the next one is read.
RECURSIVE next_entry_skipbad(_, _)
next_entry_skipbad(d, p) ==
    LET l == read_line(d, p)
    IN  IF l.buf = <<>>
        THEN [res |-> NoEntry, pos |-> Len(d) + 1]
        ELSE IF decode(l.buf) = ErrEntry
             THEN next_entry_skipbad(d, l.pos)
             ELSE [res |-> decode(l.buf), pos |-> l.pos]

\* Mutant: an empty buffer is not told from a line; it goes to the decoder.
next_entry_nocheck(d, p) ==
    LET l == read_line(d, p)
    IN  [res |-> decode(l.buf), pos |-> l.pos]

\* Mutant: on reading nothing the cursor is put at SeekFrom::Start(1).
next_entry_start1(d, p) ==
    LET l == read_line(d, p)
    IN  IF l.buf = <<>>
        THEN [res |-> NoEntry, pos |-> 1]
        ELSE [res |-> decode(l.buf), pos |-> l.pos]

next_entry(d, p) ==
    LET l == read_line(d, p)
    IN  IF l.buf = <<>>
        THEN [res |-> NoEntry, pos |-> Len(d) + 1]
        ELSE [res |-> decode(l.buf), pos |-> l.pos]

\* Mutant: the cursor is not put back after the seek to End(0).
len_norestore(d, p) == [res |-> Len(d), pos |-> Len(d)]

\* Entries::len: seek to End(0) for the length, then back to where it was.
len(d, p) == [res |-> Len(d), pos |-> p]

at(d, p, off) ==
    IF off > len(d, p).res
    THEN [res |-> NoEntry, pos |-> len(d, p).pos]
    ELSE next_entry(d, start_of_current_line(d, off).pos)

seek_to_end(d, p) == [res |-> NoEntry, pos |-> at(d, p, Len(d)).pos]

seek_to_next(d, p) == start_of_next_line(d, p)

seek_to_prev(d, p) == start_of_prev_line(d, p)

\* Mutant: the first seek_to_prev is done whatever the cursor is.
prev_entry_noguard(d, p) ==
    LET p1 == seek_to_prev(d, p).pos
        s2 == seek_to_prev(d, p1)
    IN  IF s2.ret = ERR THEN [res |-> ErrEntry, pos |-> s2.pos]
        ELSE IF s2.ret = NONE THEN [res |-> NoEntry, pos |-> s2.pos]
        ELSE next_entry(d, s2.pos)

prev_entry(d, p) ==
    LET s1 == IF p <= Len(d) THEN seek_to_prev(d, p) ELSE [ret |-> 0, pos |-> p]
        s2 == seek_to_prev(d, s1.pos)
    IN  IF s1.ret = ERR THEN [res |-> ErrEntry, pos |-> s1.pos]
        ELSE IF s2.ret = ERR THEN [res |-> ErrEntry, pos |-> s2.pos]
        ELSE IF s2.ret = NONE THEN [res |-> NoEntry, pos |-> s2.pos]
        ELSE next_entry(d, s2.pos)

\* u64::MAX, what `cur - 1` wraps to at cur = 0 in a build without overflow
\* checks.  TLC evaluates 32-bit integers, so the model takes the largest of
\* those; all the code does with it is compare it with file offsets and
\* halve it.
U64_MAX == 2147483647

\* Overflow checks on (debug) panic on `0 - 1`; off (release) it wraps.
Builds == {"debug", "release"}

\* The `while start < end` loop of seek_to_first; c is the cursor.
RECURSIVE first_search(_, _, _, _, _, _)
first_search(d, c, start, end, date, build) ==
    IF ~(start < end)
    THEN [st |-> "ok", end |-> end, pos |-> c]
    ELSE LET cur == start + (end - start) \div 2
             r == at(d, c, cur)
         IN  IF r.res.kind = "none" THEN [st |-> "ok", end |-> end, pos |-> r.pos]
             ELSE IF r.res.kind = "err" THEN [st |-> "err", end |-> end, pos |-> r.pos]
             ELSE IF r.res.datetime >= date
                  THEN IF cur = 0
                       THEN IF build = "debug"
                            THEN [st |-> "panic", end |-> end, pos |-> r.pos]
                            ELSE first_search(d, r.pos, start, U64_MAX, date, build)
                       ELSE first_search(d, r.pos, start, cur - 1, date, build)
                  ELSE first_search(d, r.pos, cur + 1, end, date, build)

\* The closing `loop` of seek_to_first over prev_entry.
RECURSIVE first_backscan(_, _, _)
first_backscan(d, c, date) ==
    LET r == prev_entry(d, c)
    IN  IF r.res.kind = "none" THEN [st |-> "ok", pos |-> r.pos]
        ELSE IF r.res.kind = "err" THEN [st |-> "err", pos |-> r.pos]
        ELSE IF r.res.datetime < date THEN [st |-> "ok", pos |-> r.pos]
        ELSE first_backscan(d, r.pos, date)

seek_to_first(d, p, date, build) ==
    LET s == first_search(d, 0, 0, Len(d), date, build)
    IN  IF s.st # "ok" THEN [st |-> s.st, pos |-> s.pos]
        ELSE IF s.end >= Len(d) THEN [st |-> "ok", pos |-> s.pos]
        ELSE LET n == next_entry(d, s.pos)
             IN  IF n.res.kind = "err" THEN [st |-> "err", pos |-> n.pos]
                 ELSE first_backscan(d, n.pos, date)

----------------------------------------------------------------------------
(* Well-formed journal files, and what a file holds read line by line.     *)

RecLine(ts, k) ==
    <<Digit0 + ts, Comma, Quote>> \o [i \in 1..k |-> LetterX] \o <<Quote, LF>>

RECURSIVE Encode(_)
Encode(ds) ==
    IF ds = <<>> THEN <<>>
    ELSE RecLine(ds[1][1], ds[1][2]) \o Encode(Tail(ds))

\* The file without the line-feed of its final line.
Chomp(d) == IF d = <<>> THEN d ELSE SubSeq(d, 1, Len(d) - 1)

Descriptors ==
    {ds \in SeqsUpTo((1..MaxTs) \X (0..MaxMsg), MaxRecs) :
        \A i \in 1..(Len(ds) - 1) : ds[i][1] <= ds[i + 1][1]}

WellFormedFiles ==
    {Encode(ds) : ds \in Descriptors} \cup {Chomp(Encode(ds)) : ds \in Descriptors}

Terminated(d) == d = <<>> \/ d[Len(d)] = LF

\* The starts of the lines that hold at least one byte.
LineStarts(d) == {s \in 0..(Len(d) - 1) : IsLineStart(d, s)}

NumLines(d) == Cardinality(LineStarts(d))

\* The 1-based index of the line that starts at s.
LineIndex(d, s) == Cardinality({t \in LineStarts(d) : t <= s})

NthStart(d, k) == CHOOSE s \in LineStarts(d) : LineIndex(d, s) = k

\* The k-th record of the file; none for an index outside 1..n.
RecordNo(d, k) ==
    IF k \in 1..NumLines(d)
    THEN decode(SubSeq(d, NthStart(d, k) + 1, line_end(d, NthStart(d, k))))
    ELSE NoEntry

Timestamps(d) == [k \in 1..NumLines(d) |-> RecordNo(d, k).datetime]

Reverse(sq) == [i \in 1..Len(sq) |-> sq[Len(sq) + 1 - i]]

----------------------------------------------------------------------------
(* Specification of the entry cursor: an Entries over a well-formed file,  *)
(* created at position 0, and any sequence of its operations.              *)

NavStart == [on |-> TRUE, idx |-> 0, exp |-> 0, phase |-> "fwd", fwd |-> <<>>, bwd |-> <<>>]
NavOff == [on |-> FALSE, idx |-> 0, exp |-> 0, phase |-> "off", fwd |-> <<>>, bwd |-> <<>>]

PANIC == 0 - 3     \* the thread panicked: nothing runs after it

Init ==
    /\ data \in WellFormedFiles
    /\ pos = 0
    /\ op = "new"
    /\ pre = 0
    /\ arg = 0
    /\ ret = NONE
    /\ ent = NoEntry
    /\ nav = NavStart
    /\ out = <<>>

\* The observer after next_entry returned r: the index of the line it read
\* (n+1 for none), the index it was expected to read, the records so far.
NavAfterNext(r) ==
    IF ~nav.on THEN NavOff
    ELSE [on |-> TRUE,
          idx |-> IF r.res.kind = "none" THEN NumLines(data) + 1
                  ELSE Cardinality({s \in LineStarts(data) : s < r.pos}),
          exp |-> nav.idx + 1,
          phase |-> IF nav.phase = "fwd"
                    THEN (IF r.res.kind = "none" THEN "bwd" ELSE "fwd")
                    ELSE "off",
          fwd |-> IF nav.phase = "fwd"
                  THEN (IF r.res.kind = "none" THEN nav.fwd ELSE Append(nav.fwd, r.res))
                  ELSE <<>>,
          bwd |-> <<>>]

\* The observer after prev_entry returned r (index 0 for none).
NavAfterPrev(r) ==
    IF ~nav.on THEN NavOff
    ELSE [on |-> TRUE,
          idx |-> IF r.res.kind = "none" THEN 0
                  ELSE Cardinality({s \in LineStarts(data) : s < r.pos}),
          exp |-> nav.idx - 1,
          phase |-> IF nav.phase = "bwd"
                    THEN (IF r.res.kind = "none" THEN "done" ELSE "bwd")
                    ELSE "off",
          fwd |-> IF nav.phase = "bwd" THEN nav.fwd ELSE <<>>,
          bwd |-> IF nav.phase = "bwd"
                  THEN (IF r.res.kind = "none" THEN nav.bwd ELSE Append(nav.bwd, r.res))
                  ELSE <<>>]

Alive == ret # PANIC

NextEntry ==
    /\ Alive
    /\ LET r == next_entry(data, pos)
       IN  /\ op' = "next_entry"
           /\ pre' = pos
           /\ arg' = 0
           /\ pos' = r.pos
           /\ ent' = r.res
           /\ ret' = NONE
           /\ nav' = NavAfterNext(r)
    /\ UNCHANGED <<data, out>>

PrevEntry ==
    /\ Alive
    /\ LET r == prev_entry(data, pos)
       IN  /\ op' = "prev_entry"
           /\ pre' = pos
           /\ arg' = 0
           /\ pos' = r.pos
           /\ ent' = r.res
           /\ ret' = NONE
           /\ nav' = NavAfterPrev(r)
    /\ UNCHANGED <<data, out>>

Next ==
    \/ NextEntry
    \/ PrevEntry

Spec == Init /\ [][Next]_vars

----------------------------------------------------------------------------
(* Specification of Entries::at: one call on an Entries whose cursor is at  *)
(* 0 or where earlier next_entry calls left it.                            *)

NextBeforeAt ==
    /\ op \in {"new", "next_entry"}
    /\ NextEntry

At ==
    /\ op \in {"new", "next_entry"}
    /\ \E off \in 0..(Len(data) + PastEnd) :
        LET r == at(data, pos, off)
        IN  /\ op' = "at"
            /\ pre' = pos
            /\ arg' = off
            /\ pos' = r.pos
            /\ ent' = r.res
            /\ ret' = NONE
            /\ nav' = NavOff
    /\ UNCHANGED <<data, out>>

AtNext ==
    \/ NextBeforeAt
    \/ At

SpecAt == Init /\ [][AtNext]_vars

----------------------------------------------------------------------------
(* Specification of Entries::seek_to_first: one call on a freshly created  *)
(* Entries, in either build, and the next_entry calls that follow it.      *)

SeekToFirst ==
    /\ op = "new"
    /\ \E date \in 0..(MaxTs + 1), build \in Builds :
        LET r == seek_to_first(data, pos, date, build)
        IN  /\ op' = "seek_to_first"
            /\ pre' = pos
            /\ arg' = date
            /\ pos' = r.pos
            /\ ent' = IF r.st = "err" THEN ErrEntry ELSE NoEntry
            /\ ret' = IF r.st = "panic" THEN PANIC ELSE NONE
            /\ nav' = NavOff
    /\ UNCHANGED <<data, out>>

NextAfterSeek ==
    /\ op = "seek_to_first"
    /\ NextEntry

FirstNext ==
    \/ SeekToFirst
    \/ NextAfterSeek

SpecFirst == Init /\ [][FirstNext]_vars

\* The same call followed by prev_entry calls: a caller that navigates
\* backwards from where seek_to_first left the cursor.
PrevAfterSeek ==
    /\ op \in {"seek_to_first", "prev_entry"}
    /\ PrevEntry

FirstPrevNext ==
    \/ SeekToFirst
    \/ PrevAfterSeek

SpecFirstPrev == Init /\ [][FirstPrevNext]_vars

----------------------------------------------------------------------------
(* Specification of the entry cursor over files that hold lines the codec  *)
(* rejects: a line without a comma, one with a bad date, one with a bad    *)
(* message.  The decodable lines keep their timestamps in order.           *)

BadLines ==
    {<<LetterX, LF>>,
     <<LetterX, Comma, Quote, Quote, LF>>,
     <<Digit0 + 1, Comma, LetterX, LF>>}

GoodLines == {RecLine(ts, 0) : ts \in 1..MaxBadTs}

RECURSIVE Flatten(_)
Flatten(ls) == IF ls = <<>> THEN <<>> ELSE ls[1] \o Flatten(Tail(ls))

BadDescriptors ==
    {ls \in SeqsUpTo(GoodLines \cup BadLines, MaxBadLines) :
        \A i, j \in 1..Len(ls) :
            (i < j /\ ls[i] \in GoodLines /\ ls[j] \in GoodLines)
                => ls[i][1] <= ls[j][1]}

BadFiles ==
    {Flatten(ls) : ls \in BadDescriptors} \cup {Chomp(Flatten(ls)) : ls \in BadDescriptors}

BadInit ==
    /\ data \in BadFiles
    /\ pos = 0
    /\ op = "new"
    /\ pre = 0
    /\ arg = 0
    /\ ret = NONE
    /\ ent = NoEntry
    /\ nav = NavOff
    /\ out = <<>>

BadNext ==
    \/ NextEntry
    \/ PrevEntry
    \/ At
    \/ SeekToFirst

SpecBad == BadInit /\ [][BadNext]_vars

----------------------------------------------------------------------------
(* Specification of Entries::seek_to_end: one call on a freshly created    *)
(* Entries, and the next_entry and prev_entry calls that follow it.        *)

SeekToEnd ==
    /\ op = "new"
    /\ LET r == seek_to_end(data, pos)
       IN  /\ op' = "seek_to_end"
           /\ pre' = pos
           /\ arg' = 0
           /\ pos' = r.pos
           /\ ent' = IF at(data, pos, Len(data)).res.kind = "err"
                     THEN ErrEntry ELSE NoEntry
           /\ ret' = NONE
           /\ nav' = NavOff
    /\ UNCHANGED <<data, out>>

NextAfterEnd ==
    /\ op # "new"
    /\ NextEntry

PrevAfterEnd ==
    /\ op # "new"
    /\ PrevEntry

EndNext ==
    \/ SeekToEnd
    \/ NextAfterEnd
    \/ PrevAfterEnd

SpecEnd == Init /\ [][EndNext]_vars

----------------------------------------------------------------------------
(* bsearch.rs: its own copies of the three line primitives.                *)

RECURSIVE seek_current_line_loop(_, _)
seek_current_line_loop(d, p) ==
    IF p = 0
    THEN [ret |-> 0, pos |-> 0]
    ELSE LET r == read_exact1(d, p)
         IN  IF r.ok /\ r.byte = LF
             THEN [ret |-> p + 1, pos |-> r.pos]
             ELSE seek_current_line_loop(d, p - 1)

seek_start_of_current_line(d, p) ==
    LET r == read_exact1(d, p)
        buf == IF r.ok THEN r.byte ELSE NUL
    IN  IF buf = LF
        THEN IF p = 0
             THEN [ret |-> 0, pos |-> 0]
             ELSE seek_current_line_loop(d, p - 1)
        ELSE seek_current_line_loop(d, p)

RECURSIVE seek_start_of_next_line(_, _)
seek_start_of_next_line(d, p) ==
    LET r == read_exact1(d, p)
    IN  IF ~r.ok
        THEN [ret |-> NONE, pos |-> r.pos]
        ELSE IF r.byte = LF
             THEN [ret |-> p + 1, pos |-> r.pos]
             ELSE seek_start_of_next_line(d, p + 1)

RECURSIVE seek_prev_line_loop(_, _)
seek_prev_line_loop(d, p) ==
    IF p = 0
    THEN [ret |-> 0, pos |-> 0]
    ELSE LET r == read_exact1(d, p - 1)
         IN  IF ~r.ok
             THEN [ret |-> ERR, pos |-> r.pos]
             ELSE IF r.byte = LF
                  THEN [ret |-> p, pos |-> r.pos]
                  ELSE seek_prev_line_loop(d, p - 1)

seek_start_of_prev_line(d, p) ==
    LET c == seek_start_of_current_line(d, p)
    IN  IF c.pos = 0
        THEN [ret |-> NONE, pos |-> 0]
        ELSE seek_prev_line_loop(d, c.pos - 1)

----------------------------------------------------------------------------
(* bsearch.rs: seek                                                        *)

\* Where a stream leaves its cursor when read_exact runs into end-of-file
\* part-way: where it was (std::io::Cursor) or at end-of-file (a buffered
\* File, which has consumed what was left).
ShortReads == {"stay", "end"}

\* Read::read_exact into `buf = vec![0; prefix.len()]`.
read_exact_n(d, p, n, short) ==
    IF p + n <= Len(d)
    THEN [ok |-> TRUE, buf |-> SubSeq(d, p + 1, p + n), pos |-> p + n]
    ELSE [ok |-> FALSE, buf |-> <<>>,
          pos |-> IF short = "end" /\ p < Len(d) THEN Len(d) ELSE p]

\* <[u8] as Ord>::cmp on two byte strings of one length.
RECURSIVE cmp(_, _)
cmp(a, b) ==
    IF a = <<>> \/ b = <<>>
    THEN (IF a = b THEN "Equal" ELSE IF a = <<>> THEN "Less" ELSE "Greater")
    ELSE IF a[1] < b[1] THEN "Less"
    ELSE IF a[1] > b[1] THEN "Greater"
    ELSE cmp(Tail(a), Tail(b))

\* The inner `loop` of the Ordering::Equal arm; c is the cursor.
RECURSIVE seek_equal_loop(_, _, _, _, _, _)
seek_equal_loop(d, prefix, seek_type, short, line_start, c) ==
    IF line_start = 0
    THEN [ret |-> 0, pos |-> 0]
    ELSE IF seek_type = "FirstGreaterThan"
    THEN LET new_start == seek_start_of_prev_line(d, c)
             rd == read_exact_n(d, new_start.pos, Len(prefix), short)
         IN  IF new_start.ret = ERR THEN [ret |-> ERR, pos |-> new_start.pos]
             ELSE IF new_start.ret = NONE THEN [ret |-> 0, pos |-> 0]
             ELSE IF ~rd.ok THEN [ret |-> ERR, pos |-> rd.pos]
             ELSE IF cmp(prefix, rd.buf) = "Greater"
                  THEN [ret |-> line_start, pos |-> line_start]
                  ELSE seek_equal_loop(d, prefix, seek_type, short, new_start.ret, rd.pos)
    ELSE LET new_start == seek_start_of_next_line(d, c)
             rd == read_exact_n(d, new_start.pos, Len(prefix), short)
         IN  IF new_start.ret = NONE THEN [ret |-> line_start, pos |-> line_start]
             ELSE IF ~rd.ok THEN [ret |-> line_start, pos |-> line_start]
             ELSE IF cmp(prefix, rd.buf) = "Less"
                  THEN [ret |-> line_start, pos |-> line_start]
                  ELSE seek_equal_loop(d, prefix, seek_type, short, new_start.ret, rd.pos)

\* The closing `match (seek_type, end)`.
\* Mutant: under LastLessThan the stream position is returned as it is, not
\* snapped to the start of its line.
seek_final_raw(d, seek_type, end, c) ==
    IF seek_type = "FirstGreaterThan"
    THEN (IF end = 0 THEN [ret |-> 0, pos |-> c] ELSE [ret |-> NONE, pos |-> c])
    ELSE (IF end = 0 THEN [ret |-> NONE, pos |-> c]
          ELSE [ret |-> c, pos |-> c])

\* Mutant: the final match has no arms for end = 0.
seek_final_noend0(d, seek_type, end, c) ==
    IF seek_type = "FirstGreaterThan"
    THEN [ret |-> NONE, pos |-> c]
    ELSE seek_start_of_current_line(d, c)

seek_final(d, seek_type, end, c) ==
    IF seek_type = "FirstGreaterThan"
    THEN (IF end = 0 THEN [ret |-> 0, pos |-> c] ELSE [ret |-> NONE, pos |-> c])
    ELSE (IF end = 0 THEN [ret |-> NONE, pos |-> c]
          ELSE seek_start_of_current_line(d, c))

\* The outer `loop`, the binary search proper.
RECURSIVE seek_loop(_, _, _, _, _, _, _)
seek_loop(d, prefix, seek_type, short, start, end, c) ==
    IF end <= start
    THEN seek_final(d, seek_type, end, c)
    ELSE LET cur == start + (end - start) \div 2
             ls == seek_start_of_current_line(d, cur)
             rd == read_exact_n(d, ls.pos, Len(prefix), short)
             ord == cmp(prefix, rd.buf)
         IN  IF ~rd.ok THEN [ret |-> NONE, pos |-> rd.pos]
             ELSE IF ord = "Less"
                  THEN IF cur = 0
                       THEN seek_final(d, seek_type, cur, rd.pos)
                       ELSE seek_loop(d, prefix, seek_type, short, start, cur - 1, rd.pos)
             ELSE IF ord = "Equal"
                  THEN seek_equal_loop(d, prefix, seek_type, short, ls.ret, rd.pos)
             ELSE seek_loop(d, prefix, seek_type, short, cur + 1, end, rd.pos)

seek(d, prefix, seek_type, short) ==
    seek_loop(d, prefix, seek_type, short, 0, Len(d), 0)

SeekTypes == {"FirstGreaterThan", "LastLessThan"}

----------------------------------------------------------------------------
(* Specification of bsearch::seek: one call on a stream over a file whose  *)
(* lines are sorted by their leading key byte.                             *)

KeyB == 98         \* 'b'
KeyD == 100        \* 'd'
Keys == {KeyB, KeyD}
QueryBytes == (KeyB - 1)..(KeyD + 1)

KeyLine(k, f) == <<k>> \o [i \in 1..f |-> LetterX] \o <<LF>>

RECURSIVE EncodeKeys(_)
EncodeKeys(ds) ==
    IF ds = <<>> THEN <<>>
    ELSE KeyLine(ds[1][1], ds[1][2]) \o EncodeKeys(Tail(ds))

KeyDescriptors ==
    {ds \in SeqsUpTo(Keys \X (0..MaxFill), MaxLines) :
        \A i \in 1..(Len(ds) - 1) : ds[i][1] <= ds[i + 1][1]}

SortedFiles ==
    {EncodeKeys(ds) : ds \in KeyDescriptors}
        \cup {Chomp(EncodeKeys(ds)) : ds \in KeyDescriptors}

Queries == UNION {[1..n -> QueryBytes] : n \in 1..MaxQuery}

SeekInit ==
    /\ data \in SortedFiles
    /\ pos = 0
    /\ op = "open"
    /\ pre = 0
    /\ arg = <<>>
    /\ ret = NONE
    /\ ent = NoEntry
    /\ nav = NavOff
    /\ out = <<>>

Seek(seek_type) ==
    /\ op = "open"
    /\ \E prefix \in Queries, short \in ShortReads :
        LET r == seek(data, prefix, seek_type, short)
        IN  /\ op' = seek_type
            /\ pre' = pos
            /\ arg' = prefix
            /\ pos' = r.pos
            /\ ret' = r.ret
    /\ UNCHANGED <<data, ent, nav, out>>

SeekFirst == Seek("FirstGreaterThan")

SeekLast == Seek("LastLessThan")

SeekNext ==
    \/ SeekFirst
    \/ SeekLast

SpecSeek == SeekInit /\ [][SeekNext]_vars

----------------------------------------------------------------------------
(* Specification of the cursor primitives over raw byte files.             *)

LineInit ==
    /\ data \in SeqsUpTo(RawBytes, MaxLen)
    /\ pos \in 0..(Len(data) + PastEnd)
    /\ op = "init"
    /\ pre = pos
    /\ arg = 0
    /\ ret = NONE
    /\ ent = NoEntry
    /\ nav = NavOff
    /\ out = <<>>

LineCall(name, r) ==
    /\ op' = name
    /\ pre' = pos
    /\ pos' = r.pos
    /\ ret' = r.ret
    /\ UNCHANGED <<data, arg, ent, nav, out>>

CallStartOfCurrentLine == LineCall("start_of_current_line", start_of_current_line(data, pos))

\* Where the failed read_exact of a primitive that returns none leaves a
\* stream: a File, a BufReader over one and an older std::io::Cursor stay
\* where they were; a std::io::Cursor of a recent standard library moves to
\* end-of-file.
after_short_read(d, r, short) ==
    IF r.ret = NONE /\ short = "end"
    THEN [ret |-> NONE, pos |-> Len(d)]
    ELSE r

CallStartOfNextLine ==
    \E short \in ShortReads :
        LineCall("start_of_next_line",
                 after_short_read(data, start_of_next_line(data, pos), short))

CallStartOfPrevLine == LineCall("start_of_prev_line", start_of_prev_line(data, pos))

LineNext ==
    \/ CallStartOfCurrentLine
    \/ CallStartOfNextLine
    \/ CallStartOfPrevLine

SpecLine == LineInit /\ [][LineNext]_vars

----------------------------------------------------------------------------
(* Specification of the whole entry cursor: an Entries created at position *)
(* 0 over a well-formed file and any sequence of its seven operations.     *)
(* The cursor is the only state of an Entries; of each call the operation, *)
(* the cursor it leaves and what it returned are kept.                     *)

AllDescriptors ==
    {ds \in SeqsUpTo((1..MaxAllTs) \X (0..MaxAllMsg), MaxAllRecs) :
        \A i \in 1..(Len(ds) - 1) : ds[i][1] <= ds[i + 1][1]}

AllFiles ==
    {Encode(ds) : ds \in AllDescriptors} \cup {Chomp(Encode(ds)) : ds \in AllDescriptors}

AllInit ==
    /\ data \in AllFiles
    /\ pos = 0
    /\ op = "new"
    /\ pre = 0
    /\ arg = 0
    /\ ret = NONE
    /\ ent = NoEntry
    /\ nav = NavOff
    /\ out = <<>>

AllCall(name, newpos, offset, entry) ==
    /\ Alive
    /\ op' = name
    /\ pos' = newpos
    /\ ret' = offset
    /\ ent' = entry
    /\ UNCHANGED <<data, pre, arg, nav, out>>

AllAt ==
    \E off \in 0..(Len(data) + PastEnd) :
        LET r == at(data, pos, off)
        IN  AllCall("at", r.pos, NONE, r.res)

AllNextEntry ==
    LET r == next_entry(data, pos)
    IN  AllCall("next_entry", r.pos, NONE, r.res)

AllPrevEntry ==
    LET r == prev_entry(data, pos)
    IN  AllCall("prev_entry", r.pos, NONE, r.res)

AllSeekToEnd ==
    LET r == at(data, pos, len(data, pos).res)
    IN  AllCall("seek_to_end", seek_to_end(data, pos).pos, NONE,
                IF r.res.kind = "err" THEN ErrEntry ELSE NoEntry)

AllSeekToFirst ==
    \E date \in 0..(MaxAllTs + 1), build \in Builds :
        LET r == seek_to_first(data, pos, date, build)
        IN  AllCall("seek_to_first", r.pos,
                    IF r.st = "panic" THEN PANIC ELSE NONE,
                    IF r.st = "err" THEN ErrEntry ELSE NoEntry)

AllSeekToNext ==
    \E short \in ShortReads :
        LET r == after_short_read(data, seek_to_next(data, pos), short)
        IN  AllCall("seek_to_next", r.pos, r.ret, NoEntry)

AllSeekToPrev ==
    LET r == seek_to_prev(data, pos)
    IN  AllCall("seek_to_prev", r.pos, r.ret, NoEntry)

AllNext ==
    \/ AllAt
    \/ AllNextEntry
    \/ AllPrevEntry
    \/ AllSeekToEnd
    \/ AllSeekToFirst
    \/ AllSeekToNext
    \/ AllSeekToPrev

SpecAll == AllInit /\ [][AllNext]_vars

----------------------------------------------------------------------------
(* bin/hmm.rs: the writer.  One invocation runs under the exclusive lock   *)
(* from lock_exclusive to unlock, so invocations follow one another.  It   *)
(* reads the system clock twice: in the clock-skew check, and in           *)
(* Entry::with_message when it builds the entry it writes.                 *)

SKEW == 0 - 4      \* Err("clock skew detected, ...")
OK == 0 - 5        \* Ok(())

\* app: d is the file, msg the length of the message, now_check and
\* now_write the two readings of Utc::now().  The file is opened in append
\* mode, so the record goes to the end wherever the cursor is.
app(d, msg, now_check, now_write) ==
    LET end1 == at(d, 0, len(d, 0).res)
        last == prev_entry(d, end1.pos)
        end2 == at(d, last.pos, len(d, last.pos).res)
        back == prev_entry(d, end2.pos)
        written == [st |-> OK, data |-> d \o RecLine(now_write, msg)]
    IN  IF ~(len(d, 0).res > 0) THEN written
        ELSE IF end1.res.kind = "err" \/ last.res.kind = "err"
             THEN [st |-> ERR, data |-> d]
        ELSE IF last.res.kind = "none" THEN [st |-> PANIC, data |-> d]
        ELSE IF last.res.datetime > now_check THEN [st |-> SKEW, data |-> d]
        ELSE IF end2.res.kind = "err" \/ back.res.kind = "err"
             THEN [st |-> ERR, data |-> d]
        ELSE written

WriteInit ==
    /\ data = <<>>
    /\ pos = 0
    /\ op = "new"
    /\ pre = 0
    /\ arg = 0
    /\ ret = NONE
    /\ ent = NoEntry
    /\ nav = NavOff
    /\ out = <<>>

\* One invocation of hmm with a message, start to exit; arg keeps the
\* clock reading of its check.
Hmm ==
    /\ NumLines(data) < MaxWrites
    /\ \E msg \in 0..MaxMsg, now_check \in 1..MaxClock, now_write \in 1..MaxClock :
        LET r == app(data, msg, now_check, now_write)
        IN  /\ op' = "hmm"
            /\ data' = r.data
            /\ ret' = r.st
            /\ arg' = now_check
            /\ out' = IF r.st = OK THEN Append(out, msg) ELSE out
    /\ UNCHANGED <<pos, pre, ent, nav>>

SpecWrite == WriteInit /\ [][Hmm]_vars

\* One invocation of hmm on a journal that already exists: any well-formed
\* file, its final line ending in a line-feed or not.
HmmOnFile ==
    /\ op = "new"
    /\ \E msg \in 0..MaxMsg, now_check \in 0..MaxClock, now_write \in 0..MaxClock :
        LET r == app(data, msg, now_check, now_write)
        IN  /\ op' = "hmm"
            /\ data' = r.data
            /\ ret' = r.st
            /\ arg' = now_check
            /\ out' = IF r.st = OK THEN Append(out, msg) ELSE out
    /\ UNCHANGED <<pos, pre, ent, nav>>

SpecWriteFile == Init /\ [][HmmOnFile]_vars

----------------------------------------------------------------------------
(* bin/hmm.rs: two invocations on one file.  Each has its own descriptor,  *)
(* opened in append mode.  op holds the place of each invocation in app,   *)
(* ret its exit status, arg the holder of the exclusive lock (0: nobody),  *)
(* ent the bytes of its row not yet written, out the rows in the order     *)
(* their writing began and pre the file before either invocation.          *)

Writers == 1..2

\* A lock that is granted whoever holds it.
lock_granted(holder, p) == TRUE

\* lock_exclusive blocks until no other descriptor holds the lock.
lock_exclusive(holder, p) == holder = 0

\* unlock, and the close of the descriptor when the process exits.
unlock(holder, p) == IF holder = p THEN 0 ELSE holder

\* The clock-skew check: OK when the invocation goes on to write.
skew_check(d, now_check) ==
    LET end1 == at(d, 0, len(d, 0).res)
        last == prev_entry(d, end1.pos)
    IN  IF ~(len(d, 0).res > 0) THEN OK
        ELSE IF end1.res.kind = "err" \/ last.res.kind = "err" THEN ERR
        ELSE IF last.res.kind = "none" THEN PANIC
        ELSE IF last.res.datetime > now_check THEN SKEW
        ELSE OK

\* The second seek_to_end and prev_entry, which come before the write.
seek_before_write(d) ==
    LET end1 == at(d, 0, len(d, 0).res)
        last == prev_entry(d, end1.pos)
        end2 == at(d, last.pos, len(d, last.pos).res)
        back == prev_entry(d, end2.pos)
    IN  IF ~(len(d, 0).res > 0) THEN OK
        ELSE IF end2.res.kind = "err" \/ back.res.kind = "err" THEN ERR
        ELSE OK

Critical == {"locked", "checked", "writing", "written"}

TwoInit ==
    /\ data \in {d \in WellFormedFiles : NumLines(d) <= MaxSharedRecs}
    /\ pre = data
    /\ pos = 0
    /\ op = [p \in Writers |-> "opened"]
    /\ arg = 0
    /\ ret = [p \in Writers |-> NONE]
    /\ ent = [p \in Writers |-> <<>>]
    /\ nav = NavOff
    /\ out = <<>>

Lock(p) ==
    /\ op[p] = "opened"
    /\ lock_exclusive(arg, p)
    /\ arg' = p
    /\ op' = [op EXCEPT ![p] = "locked"]
    /\ UNCHANGED <<data, pos, pre, ret, ent, nav, out>>

SkewCheck(p) ==
    /\ op[p] = "locked"
    /\ \E now_check \in 0..MaxClock :
        LET st == skew_check(data, now_check)
        IN  IF st = OK
            THEN /\ op' = [op EXCEPT ![p] = "checked"]
                 /\ UNCHANGED <<arg, ret>>
            ELSE /\ op' = [op EXCEPT ![p] = "exited"]
                 /\ ret' = [ret EXCEPT ![p] = st]
                 /\ arg' = unlock(arg, p)
    /\ UNCHANGED <<data, pos, pre, ent, nav, out>>

\* write_all: the row reaches the file in one write or in two.
WriteRow(p) ==
    /\ op[p] = "checked"
    /\ IF seek_before_write(data) # OK
       THEN /\ op' = [op EXCEPT ![p] = "exited"]
            /\ ret' = [ret EXCEPT ![p] = seek_before_write(data)]
            /\ arg' = unlock(arg, p)
            /\ UNCHANGED <<data, ent, out>>
       ELSE \E msg \in 0..MaxMsg, now_write \in 0..MaxClock :
            \E k \in 1..Len(RecLine(now_write, msg)) :
                LET row == RecLine(now_write, msg)
                IN  /\ data' = data \o SubSeq(row, 1, k)
                    /\ ent' = [ent EXCEPT ![p] = SubSeq(row, k + 1, Len(row))]
                    /\ out' = Append(out, row)
                    /\ op' = [op EXCEPT ![p] =
                                 IF k = Len(row) THEN "written" ELSE "writing"]
                    /\ UNCHANGED <<arg, ret>>
    /\ UNCHANGED <<pos, pre, nav>>

WriteRest(p) ==
    /\ op[p] = "writing"
    /\ data' = data \o ent[p]
    /\ ent' = [ent EXCEPT ![p] = <<>>]
    /\ op' = [op EXCEPT ![p] = "written"]
    /\ UNCHANGED <<pos, pre, arg, ret, nav, out>>

Unlock(p) ==
    /\ op[p] = "written"
    /\ arg' = unlock(arg, p)
    /\ op' = [op EXCEPT ![p] = "exited"]
    /\ ret' = [ret EXCEPT ![p] = OK]
    /\ UNCHANGED <<data, pos, pre, ent, nav, out>>

TwoNext ==
    \E p \in Writers :
        \/ Lock(p)
        \/ SkewCheck(p)
        \/ WriteRow(p)
        \/ WriteRest(p)
        \/ Unlock(p)

SpecTwoWriters == TwoInit /\ [][TwoNext]_vars

----------------------------------------------------------------------------
(* entries.rs: len, is_empty and rand_entry, one call wherever earlier     *)
(* next_entry and prev_entry calls left the cursor, and hmmq --random.     *)

Moved == {"new", "next_entry", "prev_entry"}

MoveBefore ==
    /\ op \in Moved
    /\ \/ NextEntry
       \/ PrevEntry

\* Entries::is_empty: len() == 0.
is_empty(d, p) == [res |-> len(d, p).res = 0, pos |-> len(d, p).pos]

\* rand::distributions::Uniform::new(low, high): the offsets it samples
\* from.  It panics when low >= high.
Uniform(low, high) == [ok |-> low < high, range |-> low..(high - 1)]

\* Entries::rand_entry with the offset the generator draws.
rand_entry(d, p, drawn) == at(d, len(d, p).pos, drawn)

LenCall ==
    /\ op \in Moved
    /\ LET r == len(data, pos)
       IN  /\ op' = "len"
           /\ pre' = pos
           /\ arg' = 0
           /\ pos' = r.pos
           /\ ent' = NoEntry
           /\ ret' = r.res
           /\ nav' = NavOff
    /\ UNCHANGED <<data, out>>

IsEmptyCall ==
    /\ op \in Moved
    /\ LET r == is_empty(data, pos)
       IN  /\ op' = "is_empty"
           /\ pre' = pos
           /\ arg' = 0
           /\ pos' = r.pos
           /\ ent' = NoEntry
           /\ ret' = IF r.res THEN 1 ELSE 0
           /\ nav' = NavOff
    /\ UNCHANGED <<data, out>>

RandEntry ==
    /\ op \in Moved
    /\ op' = "rand_entry"
    /\ pre' = pos
    /\ nav' = NavOff
    /\ IF Uniform(0, len(data, pos).res).ok
       THEN \E drawn \in Uniform(0, len(data, pos).res).range :
                LET r == rand_entry(data, pos, drawn)
                IN  /\ arg' = drawn
                    /\ pos' = r.pos
                    /\ ent' = r.res
                    /\ ret' = NONE
       ELSE /\ arg' = 0
            /\ pos' = len(data, pos).pos
            /\ ent' = NoEntry
            /\ ret' = PANIC
    /\ UNCHANGED <<data, out>>

\* hmmq --random on a freshly opened file: it prints the entry, if any.
HmmqRandom ==
    /\ op = "new"
    /\ op' = "hmmq_random"
    /\ pre' = pos
    /\ nav' = NavOff
    /\ IF Uniform(0, len(data, pos).res).ok
       THEN \E drawn \in Uniform(0, len(data, pos).res).range :
                LET r == rand_entry(data, pos, drawn)
                IN  /\ arg' = drawn
                    /\ pos' = r.pos
                    /\ ent' = r.res
                    /\ ret' = IF r.res.kind = "err" THEN ERR ELSE OK
                    /\ out' = IF r.res.kind = "entry" THEN <<r.res>> ELSE <<>>
       ELSE /\ arg' = 0
            /\ pos' = len(data, pos).pos
            /\ ent' = NoEntry
            /\ ret' = PANIC
            /\ out' = <<>>
    /\ UNCHANGED data

RandNext ==
    \/ MoveBefore
    \/ LenCall
    \/ IsEmptyCall
    \/ RandEntry
    \/ HmmqRandom

SpecRand == Init /\ [][RandNext]_vars

----------------------------------------------------------------------------
(* bin/hmmq.rs: one run of hmmq over a well-formed journal.  The options   *)
(* are a record: start, end, first and last are NONE when not given;       *)
(* contains and regex are NONE or the number of 'x' the message must hold. *)

\* One pass of `for _ in 0..last { entries.seek_to_prev()?; }` after its
\* seek_to_prev returned r, and the loop itself.
RECURSIVE seek_back(_, _, _)
seek_back_step(d, n, r) ==
    IF r.ret = ERR THEN [st |-> "err", pos |-> r.pos]
    ELSE seek_back(d, r.pos, n - 1)

seek_back(d, p, n) ==
    IF n = 0 THEN [st |-> "ok", pos |-> p]
    ELSE seek_back_step(d, n, seek_to_prev(d, p))

\* `entries.at(len)?` of the --last block, given what at returned.
at_len_status(a) ==
    [st |-> IF a.res.kind = "err" THEN "err" ELSE "ok", pos |-> a.pos]

\* The --last block once its seek_to_first or at(len) has returned e.
position_back(d, opt, e) ==
    IF e.st # "ok" THEN e ELSE seek_back(d, e.pos, opt.last)

\* The `if let Some(last) = opt.last` block: where it leaves the cursor.
position_last(d, p, opt, build) ==
    IF opt.last = NONE THEN [st |-> "ok", pos |-> p]
    ELSE position_back(d, opt,
                       IF opt.end # NONE
                       THEN seek_to_first(d, p, opt.end, build)
                       ELSE at_len_status(at(d, p, len(d, p).res)))

\* What the run has printed when it stops with status st.
printed_at_exit(st, opt, count, printed) ==
    [st |-> st,
     out |-> IF st = OK /\ opt.count
             THEN Append(printed, [kind |-> "count", n |-> count])
             ELSE printed]

\* One pass of the printing `loop` after its next_entry returned r, and the
\* loop itself with the `if opt.count` that follows it.
RECURSIVE print_loop(_, _, _, _, _)
print_step(d, opt, count, printed, r) ==
    IF r.res.kind = "err" THEN printed_at_exit(ERR, opt, count, printed)
    ELSE IF r.res.kind = "none" THEN printed_at_exit(OK, opt, count, printed)
    ELSE IF opt.end # NONE /\ opt.end <= r.res.datetime
         THEN printed_at_exit(OK, opt, count, printed)
    ELSE IF opt.contains # NONE /\ ~(Len(r.res.message) >= opt.contains)
         THEN print_loop(d, r.pos, opt, count, printed)
    ELSE IF opt.regex # NONE /\ ~(Len(r.res.message) >= opt.regex)
         THEN print_loop(d, r.pos, opt, count, printed)
    ELSE print_loop(d, r.pos, opt, count + 1,
                    IF opt.count THEN printed ELSE Append(printed, r.res))

print_loop(d, p, opt, count, printed) ==
    IF opt.first # NONE /\ count >= opt.first
    THEN printed_at_exit(OK, opt, count, printed)
    ELSE print_step(d, opt, count, printed, next_entry(d, p))

\* app from the --last block on, the cursor where --start left it.
hmmq_last(d, opt, l) ==
    IF l.st = "panic" THEN [st |-> PANIC, out |-> <<>>]
    ELSE IF l.st = "err" THEN [st |-> ERR, out |-> <<>>]
    ELSE print_loop(d, l.pos, opt, 0, <<>>)

\* app once `entries.seek_to_first(start_date)?` has returned s.
hmmq_start(d, opt, build, s) ==
    IF s.st = "panic" THEN [st |-> PANIC, out |-> <<>>]
    ELSE IF s.st = "err" THEN [st |-> ERR, out |-> <<>>]
    ELSE hmmq_last(d, opt, position_last(d, s.pos, opt, build))

\* app of hmmq without --random: the exit status and the lines printed.
hmmq(d, opt, build) ==
    IF opt.regex # NONE /\ opt.contains # NONE THEN [st |-> ERR, out |-> <<>>]
    ELSE IF opt.first # NONE /\ opt.last # NONE THEN [st |-> ERR, out |-> <<>>]
    ELSE IF opt.first # NONE /\ opt.first < 1 THEN [st |-> ERR, out |-> <<>>]
    ELSE IF opt.last # NONE /\ opt.last < 1 THEN [st |-> ERR, out |-> <<>>]
    ELSE hmmq_start(d, opt, build,
                    IF opt.start = NONE THEN [st |-> "ok", pos |-> 0]
                    ELSE seek_to_first(d, 0, opt.start, build))

QueryDescriptors ==
    {ds \in SeqsUpTo((1..MaxQTs) \X (0..MaxQMsg), MaxQRecs) :
        \A i \in 1..(Len(ds) - 1) : ds[i][1] <= ds[i + 1][1]}

QueryFiles ==
    {Encode(ds) : ds \in QueryDescriptors}
        \cup {Chomp(Encode(ds)) : ds \in QueryDescriptors}

QueryDates == {NONE} \cup 0..(MaxQTs + 1)

\* --first and --last: at most one of them, or both given as 1.
QueryCounts ==
    {<<f, NONE>> : f \in {NONE} \cup 0..MaxCount}
        \cup {<<NONE, l>> : l \in 0..MaxCount}
        \cup {<<1, 1>>}

\* --contains, --regex, --count and --raw as the tests combine them: none,
\* each one alone, --contains with --count, and --contains with --regex.
QueryFlags ==
    {<<NONE, NONE, FALSE, FALSE>>, <<NONE, NONE, FALSE, TRUE>>,
     <<NONE, NONE, TRUE, FALSE>>, <<1, NONE, FALSE, FALSE>>,
     <<NONE, 1, FALSE, FALSE>>, <<1, NONE, TRUE, FALSE>>,
     <<1, 1, FALSE, FALSE>>}

QueryInit ==
    /\ data \in QueryFiles
    /\ pos = 0
    /\ op = "new"
    /\ pre = 0
    /\ arg = 0
    /\ ret = NONE
    /\ ent = NoEntry
    /\ nav = NavOff
    /\ out = <<>>

Hmmq ==
    /\ op = "new"
    /\ \E start \in QueryDates, end \in QueryDates, n \in QueryCounts,
          flg \in QueryFlags, build \in Builds :
        LET opt == [start |-> start, end |-> end, first |-> n[1], last |-> n[2],
                    contains |-> flg[1], regex |-> flg[2],
                    count |-> flg[3], raw |-> flg[4]]
            r == hmmq(data, opt, build)
        IN  /\ op' = "hmmq"
            /\ arg' = opt
            /\ ret' = r.st
            /\ out' = r.out
    /\ UNCHANGED <<data, pos, pre, ent, nav>>

SpecQuery == QueryInit /\ [][Hmmq]_vars

----------------------------------------------------------------------------
(* The two binary searches probe by probe: one step of the specification   *)
(* is one pass of a loop of Entries::seek_to_first or of bsearch::seek.    *)
(* nav holds the loop variables start, end and line_start and the number   *)
(* of passes made so far, counted up to MaxProbes.                         *)

Loop(start, end, line_start, n) ==
    [start |-> start, end |-> end, line_start |-> line_start,
     n |-> IF n < MaxProbes THEN n ELSE MaxProbes]

\* One pass of `while start < end` of seek_to_first, at() having returned r.
first_probed(start, end, cur, date, build, r) ==
    IF r.res.kind = "none"
    THEN [op |-> "first_exit", start |-> start, end |-> end, pos |-> r.pos]
    ELSE IF r.res.kind = "err"
    THEN [op |-> "failed", start |-> start, end |-> end, pos |-> r.pos]
    ELSE IF r.res.datetime >= date
    THEN IF cur = 0
         THEN IF build = "debug"
              THEN [op |-> "panicked", start |-> start, end |-> end, pos |-> r.pos]
              ELSE [op |-> "first_search", start |-> start, end |-> U64_MAX,
                    pos |-> r.pos]
         ELSE [op |-> "first_search", start |-> start, end |-> cur - 1,
               pos |-> r.pos]
    ELSE [op |-> "first_search", start |-> cur + 1, end |-> end, pos |-> r.pos]

\* The head of that loop and one pass of it.
first_step(d, c, start, end, date, build) ==
    IF ~(start < end)
    THEN [op |-> "first_exit", start |-> start, end |-> end, pos |-> c]
    ELSE first_probed(start, end, start + (end - start) \div 2, date, build,
                      at(d, c, start + (end - start) \div 2))

\* `self.next_entry()?` between the two loops of seek_to_first.
first_forward(n) ==
    IF n.res.kind = "err" THEN [op |-> "failed", pos |-> n.pos]
    ELSE [op |-> "first_backscan", pos |-> n.pos]

\* From the end of the binary search to the backward scan.
first_exit(d, c, end) ==
    IF end >= Len(d) THEN [op |-> "returned", pos |-> c]
    ELSE first_forward(next_entry(d, c))

\* One pass of the closing `loop` of seek_to_first, prev_entry having
\* returned r.
backscan_probed(date, r) ==
    IF r.res.kind = "none" THEN [op |-> "returned", pos |-> r.pos]
    ELSE IF r.res.kind = "err" THEN [op |-> "failed", pos |-> r.pos]
    ELSE IF r.res.datetime < date THEN [op |-> "returned", pos |-> r.pos]
    ELSE [op |-> "first_backscan", pos |-> r.pos]

backscan_step(d, c, date) == backscan_probed(date, prev_entry(d, c))

\* seek returns what the closing match or an arm of the loop gives.
seek_returns(r) ==
    [op |-> IF r.ret = ERR THEN "failed" ELSE "returned",
     start |-> 0, end |-> 0, line_start |-> 0, ret |-> r.ret, pos |-> r.pos]

\* One pass of the outer `loop` of seek after the probe at cur: ls is the
\* start of the probed line, rd the prefix bytes read there.
seek_probed(d, prefix, seek_type, start, end, cur, ls, rd) ==
    IF ~rd.ok THEN seek_returns([ret |-> NONE, pos |-> rd.pos])
    ELSE IF cmp(prefix, rd.buf) = "Less"
    THEN IF cur = 0
         THEN seek_returns(seek_final(d, seek_type, cur, rd.pos))
         ELSE [op |-> "seek_loop", start |-> start, end |-> cur - 1,
               line_start |-> ls.ret, ret |-> NONE, pos |-> rd.pos]
    ELSE IF cmp(prefix, rd.buf) = "Equal"
    THEN [op |-> "seek_equal", start |-> start, end |-> end,
          line_start |-> ls.ret, ret |-> NONE, pos |-> rd.pos]
    ELSE [op |-> "seek_loop", start |-> cur + 1, end |-> end,
          line_start |-> ls.ret, ret |-> NONE, pos |-> rd.pos]

seek_read(d, prefix, seek_type, short, start, end, cur, ls) ==
    seek_probed(d, prefix, seek_type, start, end, cur, ls,
                read_exact_n(d, ls.pos, Len(prefix), short))

\* The head of the outer loop and one pass of it.
seek_step(d, prefix, seek_type, short, start, end, c) ==
    IF end <= start
    THEN seek_returns(seek_final(d, seek_type, end, c))
    ELSE seek_read(d, prefix, seek_type, short, start, end,
                   start + (end - start) \div 2,
                   seek_start_of_current_line(d, start + (end - start) \div 2))

\* One pass of the inner `loop` of the Ordering::Equal arm under
\* FirstGreaterThan: new_start is what seek_start_of_prev_line returned, rd
\* the prefix bytes read there.
equal_prev(prefix, line_start, new_start, rd) ==
    IF new_start.ret = ERR THEN [op |-> "failed", line_start |-> line_start,
                                 ret |-> ERR, pos |-> new_start.pos]
    ELSE IF new_start.ret = NONE
    THEN [op |-> "returned", line_start |-> line_start, ret |-> 0, pos |-> 0]
    ELSE IF ~rd.ok THEN [op |-> "failed", line_start |-> line_start,
                         ret |-> ERR, pos |-> rd.pos]
    ELSE IF cmp(prefix, rd.buf) = "Greater"
    THEN [op |-> "returned", line_start |-> line_start, ret |-> line_start,
          pos |-> line_start]
    ELSE [op |-> "seek_equal", line_start |-> new_start.ret, ret |-> NONE,
          pos |-> rd.pos]

\* The same under LastLessThan, new_start from seek_start_of_next_line.
equal_next(prefix, line_start, new_start, rd) ==
    IF new_start.ret = NONE \/ ~rd.ok \/ cmp(prefix, rd.buf) = "Less"
    THEN [op |-> "returned", line_start |-> line_start, ret |-> line_start,
          pos |-> line_start]
    ELSE [op |-> "seek_equal", line_start |-> new_start.ret, ret |-> NONE,
          pos |-> rd.pos]

equal_prev_read(d, prefix, short, line_start, new_start) ==
    equal_prev(prefix, line_start, new_start,
               read_exact_n(d, new_start.pos, Len(prefix), short))

equal_next_read(d, prefix, short, line_start, new_start) ==
    equal_next(prefix, line_start, new_start,
               read_exact_n(d, new_start.pos, Len(prefix), short))

equal_step(d, prefix, seek_type, short, line_start, c) ==
    IF line_start = 0
    THEN [op |-> "returned", line_start |-> 0, ret |-> 0, pos |-> 0]
    ELSE IF seek_type = "FirstGreaterThan"
    THEN equal_prev_read(d, prefix, short, line_start,
                         seek_start_of_prev_line(d, c))
    ELSE equal_next_read(d, prefix, short, line_start,
                         seek_start_of_next_line(d, c))

\* Files of key lines in any order, and the prefixes they are searched for.
ProbeFiles ==
    {EncodeKeys(ds) : ds \in SeqsUpTo(Keys \X (0..MaxFill), MaxProbeLines)}
        \cup {Chomp(EncodeKeys(ds)) :
                 ds \in SeqsUpTo(Keys \X (0..MaxFill), MaxProbeLines)}

\* A key alone, or a key followed by fill bytes and then by nothing, by one
\* more fill byte or by the line-feed that ends such a line.
ProbeQueries ==
    {<<k>> \o [i \in 1..f |-> LetterX] \o t :
        k \in Keys, f \in 0..(MaxProbeQuery - 2), t \in {<<>>, <<LetterX>>, <<LF>>}}

Done == {"returned", "failed", "panicked"}

ProbeInit ==
    /\ data \in WellFormedFiles \cup ProbeFiles
    /\ pos = 0
    /\ op = "new"
    /\ pre = 0
    /\ arg = [fn |-> "none"]
    /\ ret = NONE
    /\ ent = NoEntry
    /\ nav = Loop(0, 0, 0, 0)
    /\ out = <<>>

CallSeekToFirst ==
    /\ op = "new"
    /\ data \in WellFormedFiles
    /\ \E date \in 0..(MaxTs + 1), build \in Builds :
        arg' = [fn |-> "seek_to_first", date |-> date, build |-> build]
    /\ op' = "first_search"
    /\ pos' = 0
    /\ nav' = Loop(0, Len(data), 0, 0)
    /\ UNCHANGED <<data, pre, ret, ent, out>>

FirstSearchStep ==
    /\ op = "first_search"
    /\ LET r == first_step(data, pos, nav.start, nav.end, arg.date, arg.build)
       IN  /\ op' = r.op
           /\ pos' = r.pos
           /\ nav' = Loop(r.start, r.end, 0, nav.n + 1)
    /\ UNCHANGED <<data, pre, arg, ret, ent, out>>

FirstExit ==
    /\ op = "first_exit"
    /\ LET r == first_exit(data, pos, nav.end)
       IN  /\ op' = r.op
           /\ pos' = r.pos
    /\ UNCHANGED <<data, pre, arg, ret, ent, nav, out>>

FirstBackscanStep ==
    /\ op = "first_backscan"
    /\ LET r == backscan_step(data, pos, arg.date)
       IN  /\ op' = r.op
           /\ pos' = r.pos
           /\ nav' = Loop(nav.start, nav.end, 0, nav.n + 1)
    /\ UNCHANGED <<data, pre, arg, ret, ent, out>>

CallSeek ==
    /\ op = "new"
    /\ data \in ProbeFiles
    /\ \E seek_type \in SeekTypes, prefix \in ProbeQueries, short \in ShortReads :
        arg' = [fn |-> seek_type, prefix |-> prefix, short |-> short]
    /\ op' = "seek_loop"
    /\ pos' = 0
    /\ nav' = Loop(0, Len(data), 0, 0)
    /\ UNCHANGED <<data, pre, ret, ent, out>>

SeekLoopStep ==
    /\ op = "seek_loop"
    /\ LET r == seek_step(data, arg.prefix, arg.fn, arg.short,
                          nav.start, nav.end, pos)
       IN  /\ op' = r.op
           /\ pos' = r.pos
           /\ ret' = r.ret
           /\ nav' = Loop(r.start, r.end, r.line_start, nav.n + 1)
    /\ UNCHANGED <<data, pre, arg, ent, out>>

SeekEqualStep ==
    /\ op = "seek_equal"
    /\ LET r == equal_step(data, arg.prefix, arg.fn, arg.short,
                           nav.line_start, pos)
       IN  /\ op' = r.op
           /\ pos' = r.pos
           /\ ret' = r.ret
           /\ nav' = Loop(nav.start, nav.end, r.line_start, nav.n + 1)
    /\ UNCHANGED <<data, pre, arg, ent, out>>

ProbeNext ==
    \/ CallSeekToFirst
    \/ FirstSearchStep
    \/ FirstExit
    \/ FirstBackscanStep
    \/ CallSeek
    \/ SeekLoopStep
    \/ SeekEqualStep

SpecProbe == ProbeInit /\ [][ProbeNext]_vars

----------------------------------------------------------------------------
\* C9: for a position p inside the file, start_of_current_line returns the
\* start of the line containing p, a line-feed belonging to the line it
\* terminates: the largest s <= p with s = 0 or byte s-1 a line-feed.
C9_CurrentLineInsideFile ==
    (op = "start_of_current_line" /\ pre < Len(data))
        => ret = LineStartOf(data, pre)

\* The offset right after the last line-feed that sits at an offset >= 1,
\* or 0 when there is none.
AfterLastLfBeyondZero(d) ==
    LET lfs == {i \in 1..(Len(d) - 1) : d[i + 1] = LF}
    IN  IF lfs = {} THEN 0
        ELSE (CHOOSE i \in lfs : \A j \in lfs : j <= i) + 1

----------------------------------------------------------------------------
\* C1: on a well-formed file, next_entry repeated from position 0 until none
\* and then prev_entry repeated until none yields the same records in
\* reverse order, none skipped and none duplicated.
C1_BackwardIsReverseOfForward ==
    nav.phase = "done" => nav.bwd = Reverse(nav.fwd)

\* The first record with a timestamp >= date, none if there is none.
FirstAtOrAfter(d, date) ==
    LET ks == {k \in 1..NumLines(d) : RecordNo(d, k).datetime >= date}
    IN  IF ks = {} THEN NoEntry
        ELSE RecordNo(d, CHOOSE k \in ks : \A j \in ks : k <= j)

StrictlyIncreasing(d) ==
    \A k \in 1..(NumLines(d) - 1) : Timestamps(d)[k] < Timestamps(d)[k + 1]

\* C2: on a file of strictly increasing timestamps, seek_to_first(t) returns
\* and the next_entry that follows yields the first record with a timestamp
\* >= t, or none if t is later than every record.
C2_SeekToFirstThenNext ==
    [][(StrictlyIncreasing(data) /\ op = "seek_to_first")
         => /\ ret # PANIC
            /\ (op' = "next_entry" => ent' = FirstAtOrAfter(data, arg))]_vars

\* C6: next_entry called with the cursor at or past end-of-file returns none
\* and leaves the cursor one byte past end-of-file, at file length + 1.
C6_NextAtEofGoesOnePast ==
    (op = "next_entry" /\ pre >= Len(data))
        => (ent = NoEntry /\ pos = Len(data) + 1)

\* C6 witness: next_entry ran with the cursor exactly at the end of a
\* non-empty file, returned none and left the cursor at file length + 1.
C6_Witness ==
    /\ op = "next_entry"
    /\ Len(data) > 0
    /\ pre = Len(data)
    /\ ent = NoEntry
    /\ pos = Len(data) + 1

\* C7: on a newline-terminated file, after any interleaving of next_entry
\* and prev_entry from position 0, next_entry returns the record after the
\* most recently returned one and prev_entry the record before it (none
\* from prev_entry or the start counting as index 0, none from next_entry as
\* index n+1); an index outside 1..n yields none.
C7_NeighbourOfLastReturned ==
    (nav.on /\ op \in {"next_entry", "prev_entry"} /\ Terminated(data))
        => /\ ent = RecordNo(data, nav.exp)
           /\ (nav.exp \in 1..NumLines(data) => nav.idx = nav.exp)

\* C7 witness: prev_entry ran right after next_entry had returned none on a
\* file of two or more records, and read the last record.
C7_Witness ==
    /\ nav.on
    /\ Terminated(data)
    /\ op = "prev_entry"
    /\ pre = Len(data) + 1
    /\ NumLines(data) >= 2
    /\ nav.idx = NumLines(data)
    /\ ent = RecordNo(data, NumLines(data))

\* What a forward scan with next_entry from position 0 yields for the line
\* that holds offset off (a line-feed belonging to the line it ends), none
\* when the scan runs out of lines first.
RECURSIVE ForwardScan(_, _, _)
ForwardScan(d, p, off) ==
    LET r == next_entry(d, p)
    IN  IF r.res.kind = "none" THEN NoEntry
        ELSE IF off < r.pos THEN r.res
        ELSE ForwardScan(d, r.pos, off)

\* C8 as stated: for an offset in [0, file length], at(offset) returns the
\* record the forward scan yields for the line containing the offset, and
\* none when no line contains it.
C8_Original ==
    (op = "at" /\ arg <= Len(data)) => ent = ForwardScan(data, 0, arg)

----------------------------------------------------------------------------
\* The leading bytes of the line that starts at s, as many as the query has.
PrefixAt(d, s, n) == SubSeq(d, s + 1, s + n)

\* Every line holds at least n bytes before its line-feed, and the lines are
\* sorted non-decreasingly by their leading n bytes.
SortedBy(d, n) ==
    /\ \A s \in LineStarts(d) :
          /\ s + n <= Len(d)
          /\ \A i \in (s + 1)..(s + n) : d[i] # LF
    /\ \A s, t \in LineStarts(d) :
          s < t => cmp(PrefixAt(d, s, n), PrefixAt(d, t, n)) # "Greater"

Least(S) == CHOOSE x \in S : \A y \in S : x <= y
Greatest(S) == CHOOSE x \in S : \A y \in S : y <= x

\* C3: on a sorted file, seek under FirstGreaterThan returns the smallest
\* line start whose prefix is >= the query whenever a line qualifies, also
\* when the query equals no line prefix and falls between two lines; so it
\* returns none only if no line qualifies.
C3_FirstGreaterOrEqual ==
    (op = "FirstGreaterThan" /\ SortedBy(data, Len(arg)))
        => LET S == {s \in LineStarts(data) :
                        cmp(arg, PrefixAt(data, s, Len(arg))) # "Greater"}
           IN  S # {} => ret = Least(S)

\* C4, for a query that equals no line prefix: on a sorted file, seek under
\* LastLessThan returns the largest line start whose prefix is < the query,
\* and none if no line qualifies.
C4_LastLessThan ==
    (/\ op = "LastLessThan"
     /\ SortedBy(data, Len(arg))
     /\ \A s \in LineStarts(data) : cmp(arg, PrefixAt(data, s, Len(arg))) # "Equal")
        => LET S == {s \in LineStarts(data) :
                        cmp(arg, PrefixAt(data, s, Len(arg))) = "Greater"}
           IN  ret = (IF S = {} THEN NONE ELSE Greatest(S))

\* C5: when the query equals the prefix of a run of adjacent lines of a
\* sorted file, seek returns the start of the first line of the run under
\* FirstGreaterThan and the start of the last line of the run under
\* LastLessThan.
C5_EndsOfEqualRun ==
    (op \in SeekTypes /\ SortedBy(data, Len(arg)))
        => LET S == {s \in LineStarts(data) :
                        cmp(arg, PrefixAt(data, s, Len(arg))) = "Equal"}
           IN  S # {} => ret = (IF op = "FirstGreaterThan"
                                THEN Least(S) ELSE Greatest(S))

----------------------------------------------------------------------------
\* C11: start_of_current_line is idempotent: from any position of any byte
\* file, a second call made right after a first one returns the same offset
\* and leaves the stream at the same position.
C11_CurrentLineIdempotent ==
    [][(op = "start_of_current_line" /\ op' = "start_of_current_line")
         => (ret' = ret /\ pos' = pos)]_vars

\* C11 witness: start_of_current_line ran with the stream at an offset a
\* call returns, the start of an empty line strictly inside the file (the
\* stream sits on that line's line-feed), and returned that offset again.
C11_Witness ==
    /\ op = "start_of_current_line"
    /\ pre = pos
    /\ ret = pos
    /\ pos \in 1..(Len(data) - 1)
    /\ data[pos] = LF
    /\ data[pos + 1] = LF

----------------------------------------------------------------------------
\* The offsets at or after p that hold a line-feed.
LineFeedsFrom(d, p) == {q \in p..(Len(d) - 1) : d[q + 1] = LF}

\* C12: start_of_next_line from position p returns q + 1 for the smallest
\* offset q >= p that holds a line-feed, and none exactly when no offset at
\* or after p holds one; from a position on a line-feed it returns the
\* offset right after that line-feed.
C12_NextLineAfterFirstLineFeed ==
    op = "start_of_next_line"
        => /\ ret = (IF LineFeedsFrom(data, pre) = {} THEN NONE
                     ELSE Least(LineFeedsFrom(data, pre)) + 1)
           /\ (pre < Len(data) /\ data[pre + 1] = LF => ret = pre + 1)

\* C12 witness: start_of_next_line ran from inside a line that is neither
\* the first nor the last, skipped a byte and returned the offset after the
\* line-feed that ends the line.
C12_Witness ==
    /\ op = "start_of_next_line"
    /\ pre + 2 < Len(data)
    /\ \E i \in 1..pre : data[i] = LF
    /\ data[pre + 1] # LF
    /\ data[pre + 2] = LF
    /\ ret = pre + 2

\* C13, for a position p inside the file: start_of_prev_line returns the
\* start of the line right before the line that contains p (a line-feed
\* belonging to the line it ends), and none if and only if the line that
\* contains p starts at offset 0.
C13_PrevLineInsideFile ==
    (op = "start_of_prev_line" /\ pre < Len(data))
        => ret = (IF LineStartOf(data, pre) = 0 THEN NONE
                  ELSE LineStartOf(data, LineStartOf(data, pre) - 1))

\* C14: every cursor primitive that returns an offset leaves the stream at
\* that offset, on each of its return paths; start_of_prev_line returning
\* none leaves the stream at offset 0 and start_of_next_line returning none
\* leaves it at or beyond end-of-file.
C14_StreamLeftAtResult ==
    op \in {"start_of_current_line", "start_of_next_line", "start_of_prev_line"}
        => /\ (ret >= 0 => pos = ret)
           /\ (op = "start_of_prev_line" /\ ret = NONE => pos = 0)
           /\ (op = "start_of_next_line" /\ ret = NONE => pos >= Len(data))

\* C14 witness: start_of_prev_line ran from a later line, returned the start
\* of a line that is not the first and left the stream there.
C14_Witness ==
    /\ op = "start_of_prev_line"
    /\ ret \in 1..Len(data)
    /\ pre > ret + 1
    /\ pos = ret

----------------------------------------------------------------------------
\* The 1-based indexes of the records of d that carry timestamp t.
RunOf(d, t) == {k \in 1..NumLines(d) : RecordNo(d, k).datetime = t}

\* C15: when two or more records of a well-formed file share the timestamp
\* t, seek_to_first(t) returns and the next_entry that follows yields the
\* first record of that run, the earliest in file order.
C15_SeekToFirstOfRun ==
    [][(op = "seek_to_first" /\ Cardinality(RunOf(data, arg)) >= 2)
         => /\ ret # PANIC
            /\ (op' = "next_entry"
                  => ent' = RecordNo(data, Least(RunOf(data, arg))))]_vars

----------------------------------------------------------------------------
\* C16: on a well-formed file of n records, terminated or not, the k-th of
\* the next_entry calls made from position 0 with no other call in between
\* yields record k for k <= n and none for k = n + 1, and a next_entry call
\* that follows a next_entry that returned none returns none again.
C16_ForwardPassThenNone ==
    [][op' = "next_entry"
         => /\ (nav.phase = "fwd" => ent' = RecordNo(data, Len(nav.fwd) + 1))
            /\ (op = "next_entry" /\ ent = NoEntry => ent' = NoEntry)]_vars

\* C16 witness: on a single-line file without a trailing line-feed the
\* forward pass has yielded the one record and then none, and a further
\* next_entry has returned none again.
C16_Witness ==
    /\ op = "next_entry"
    /\ ~Terminated(data)
    /\ NumLines(data) = 1
    /\ pre = Len(data) + 1
    /\ nav.exp = NumLines(data) + 2
    /\ ent = NoEntry

----------------------------------------------------------------------------
\* C17: on a non-empty well-formed file, whether its final line ends in a
\* line-feed or not, the prev_entry that follows seek_to_end returns the
\* last record of the file.
C17_EndThenPrevIsLast ==
    [][(op = "seek_to_end" /\ data # <<>> /\ op' = "prev_entry")
         => ent' = RecordNo(data, NumLines(data))]_vars

\* C18: on an empty file len() is 0 and every next_entry and prev_entry
\* call, in whatever order and number they are made, returns none and no
\* error.
C18_EmptyFileYieldsNone ==
    data = <<>>
        => /\ len(data, pos).res = 0
           /\ (op \in {"next_entry", "prev_entry"} => ent = NoEntry)

\* C18 witness: on an empty file prev_entry ran after a next_entry had put
\* the cursor one past end-of-file, and returned none.
C18_Witness ==
    /\ data = <<>>
    /\ op = "prev_entry"
    /\ pre = 1
    /\ ent = NoEntry

\* C19 as stated: on an empty file seek_to_end leaves the cursor at 0.
C19_Original ==
    (data = <<>> /\ op = "seek_to_end") => pos = 0

\* C19 amended: on an empty file seek_to_end leaves the cursor at offset 1,
\* one byte past end-of-file.
C19_EmptySeekToEndOnePast ==
    (data = <<>> /\ op = "seek_to_end") => pos = Len(data) + 1

\* C19 witness: seek_to_end ran on an empty file.
C19_Witness ==
    /\ data = <<>>
    /\ op = "seek_to_end"
    /\ pre = 0
    /\ pos = 1

----------------------------------------------------------------------------
\* C20: after any sequence of at, next_entry, prev_entry, seek_to_end,
\* seek_to_first, seek_to_next and seek_to_prev calls made from position 0
\* on a well-formed file, the cursor is at the start of a line, at
\* end-of-file, or one byte past end-of-file; never inside a line.
C20_CursorNeverMidLine ==
    pos \in LineStarts(data) \cup {Len(data), Len(data) + 1}

\* C20 witness: seek_to_prev returned the start of a line that is not the
\* first and left the cursor there.
C20_Witness ==
    /\ op = "seek_to_prev"
    /\ ret = pos
    /\ pos \in LineStarts(data) \ {0}

----------------------------------------------------------------------------
\* C21: at(pos) with pos greater than the file length returns none, not an
\* error, and leaves the cursor where it was.
C21_AtBeyondLengthIsNone ==
    (op = "at" /\ arg > Len(data)) => (ent = NoEntry /\ pos = pre)

\* C21 witness: at ran with an offset beyond the length while the cursor
\* stood at the start of a later line, strictly inside the file, and the
\* cursor stayed there.
C21_Witness ==
    /\ op = "at"
    /\ arg > Len(data)
    /\ pre \in LineStarts(data) \ {0}
    /\ ent = NoEntry
    /\ pos = pre

----------------------------------------------------------------------------
\* The bytes of the line that starts at s, its line-feed included.
LineAt(d, s) ==
    IF LineFeedsFrom(d, s) = {} THEN SubSeq(d, s + 1, Len(d))
    ELSE SubSeq(d, s + 1, Least(LineFeedsFrom(d, s)) + 1)

----------------------------------------------------------------------------
\* C23: when the query is greater than the prefix of every line of a
\* non-empty sorted file, seek returns none under FirstGreaterThan and the
\* start of the last line under LastLessThan.
C23_QueryAboveEveryLine ==
    (/\ op \in SeekTypes
     /\ data # <<>>
     /\ SortedBy(data, Len(arg))
     /\ \A s \in LineStarts(data) : cmp(arg, PrefixAt(data, s, Len(arg))) = "Greater")
        => ret = (IF op = "FirstGreaterThan" THEN NONE
                  ELSE Greatest(LineStarts(data)))

\* C23 witness: seek ran under LastLessThan with a query above all of
\* three or more lines and returned the start of the last one.
C23_Witness ==
    /\ op = "LastLessThan"
    /\ NumLines(data) >= 3
    /\ SortedBy(data, Len(arg))
    /\ \A s \in LineStarts(data) : cmp(arg, PrefixAt(data, s, Len(arg))) = "Greater"
    /\ ret = Greatest(LineStarts(data))

\* C24: when the query is smaller than the prefix of every line of a
\* non-empty sorted file, seek returns offset 0 under FirstGreaterThan and
\* none under LastLessThan.
C24_QueryBelowEveryLine ==
    (/\ op \in SeekTypes
     /\ data # <<>>
     /\ SortedBy(data, Len(arg))
     /\ \A s \in LineStarts(data) : cmp(arg, PrefixAt(data, s, Len(arg))) = "Less")
        => ret = (IF op = "FirstGreaterThan" THEN 0 ELSE NONE)

\* C24 witness: seek ran under FirstGreaterThan with a query below all of
\* three or more lines and returned offset 0.
C24_Witness ==
    /\ op = "FirstGreaterThan"
    /\ NumLines(data) >= 3
    /\ SortedBy(data, Len(arg))
    /\ \A s \in LineStarts(data) : cmp(arg, PrefixAt(data, s, Len(arg))) = "Less"
    /\ ret = 0

----------------------------------------------------------------------------
\* C25: after any sequence of hmm invocations on an initially empty file,
\* the clock free to move between and within them, the file holds the
\* messages of the successful invocations in invocation order and the
\* timestamps of its records are non-decreasing in file order.
C25_WritesKeepOrder ==
    /\ NumLines(data) = Len(out)
    /\ \A i \in 1..Len(out) :
          RecordNo(data, i).message = [j \in 1..out[i] |-> LetterX]
    /\ \A i \in 1..(NumLines(data) - 1) :
          Timestamps(data)[i] <= Timestamps(data)[i + 1]

----------------------------------------------------------------------------
\* The records of a file in file order.
Records(d) == [k \in 1..NumLines(d) |-> RecordNo(d, k)]

\* hmmq was given none of --first, --last, --contains, --regex, --count.
NoCountNoFilter ==
    /\ arg.first = NONE
    /\ arg.last = NONE
    /\ arg.contains = NONE
    /\ arg.regex = NONE
    /\ ~arg.count

\* C26: hmmq --start S --end E prints exactly the records with
\* S <= timestamp < E, in file order; in particular it prints nothing when
\* S is later than every record or E <= S.
C26_StartEndWindow ==
    (op = "hmmq" /\ arg.start # NONE /\ arg.end # NONE /\ NoCountNoFilter)
        => out = SelectSeq(Records(data),
                           LAMBDA e : arg.start <= e.datetime /\ e.datetime < arg.end)

\* C27: when hmmq is given --start S it never prints a record whose
\* timestamp is before S, whatever other options accompany it.
C27_NothingBeforeStart ==
    (op = "hmmq" /\ arg.start # NONE)
        => \A i \in 1..Len(out) :
              out[i].kind = "some" => out[i].datetime >= arg.start

\* The last min(n, Len(rs)) elements of rs, in order.
LastOf(rs, n) ==
    SubSeq(rs, Len(rs) - (IF n < Len(rs) THEN n ELSE Len(rs)) + 1, Len(rs))

\* hmmq was given none of --contains, --regex, --count.
NoFilter ==
    /\ arg.contains = NONE
    /\ arg.regex = NONE
    /\ ~arg.count

\* C28: hmmq --last N with N >= 1 and no --end, on a well-formed file of n
\* records whose final line ends in a line-feed or not, prints exactly the
\* last min(N, n) records in file order.
C28_LastWithoutEnd ==
    (/\ op = "hmmq"
     /\ arg.last # NONE /\ arg.last >= 1
     /\ arg.first = NONE /\ arg.start = NONE /\ arg.end = NONE
     /\ NoFilter)
        => out = LastOf(Records(data), arg.last)

\* C29: hmmq --last N --end E prints exactly the last min(N, k) of the k
\* records whose timestamp is before E, in file order: nothing when E is
\* earlier than every record, the last min(N, n) when E is later than all.
C29_LastWithEnd ==
    (/\ op = "hmmq"
     /\ arg.last # NONE /\ arg.last >= 1
     /\ arg.end # NONE
     /\ arg.first = NONE /\ arg.start = NONE
     /\ NoFilter)
        => out = LastOf(SelectSeq(Records(data), LAMBDA e : e.datetime < arg.end),
                        arg.last)

----------------------------------------------------------------------------
\* seek_to_first(date) on d reaches `end = cur - 1` with cur = 0: the probes
\* are the same in both builds up to that subtraction, which panics in the
\* build that checks it.
Underflows(d, date) == seek_to_first(d, 0, date, "debug").st = "panic"

\* C30: seek_to_first never executes `end = cur - 1` with cur = 0, so its
\* binary search never underflows the unsigned 64-bit end bound, whatever
\* the file and the query date.
C30_SearchNeverUnderflows ==
    op = "seek_to_first" => ~Underflows(data, arg)

----------------------------------------------------------------------------
\* C31: whenever seek returns Some(offset), under either policy and on every
\* return path, the offset is the start of a line of the file and the stream
\* is left positioned exactly at that offset.
C31_SomeIsLineStartAndPosition ==
    (op \in SeekTypes /\ ret >= 0)
        => (IsLineStart(data, ret) /\ pos = ret)

----------------------------------------------------------------------------
\* C32: when seek_to_first is called with a date later than every record of
\* a non-empty file, it returns with the cursor at end of file and the
\* prev_entry that immediately follows returns the last record of the file.
C32_PastAllThenPrevIsLast ==
    [][(/\ op = "seek_to_first"
        /\ data # <<>>
        /\ \A k \in 1..NumLines(data) : Timestamps(data)[k] < arg
        /\ op' = "prev_entry")
         => ent' = RecordNo(data, NumLines(data))]_vars

----------------------------------------------------------------------------
\* C33: both binary searches terminate: for every file and every query,
\* seek with its scan over a run of equal lines and seek_to_first with its
\* backward scan reach a return after finitely many passes of their loops.
\* A pass is a function of the loop variables and the stream position, so a
\* search that never returns repeats them and its passes reach any count;
\* a search that returns makes fewer than MaxProbes passes.
C33_SearchesTerminate == nav.n < MaxProbes

----------------------------------------------------------------------------
\* C34: on a non-empty file that ends in a line-feed, after seek_to_end
\* followed by prev_entry (what the writer runs before it appends) the
\* cursor is exactly at the file length: a write there leaves no gap.
C34_CursorAtLengthBeforeAppend ==
    [][(/\ op = "seek_to_end"
        /\ data # <<>>
        /\ Terminated(data)
        /\ op' = "prev_entry")
         => pos' = Len(data)]_vars

\* C34 witness: prev_entry ran from one past the end of a terminated file
\* of two or more records, returned the last record and left the cursor at
\* the file length.
C34_Witness ==
    /\ op = "prev_entry"
    /\ Terminated(data)
    /\ NumLines(data) >= 2
    /\ pre = Len(data) + 1
    /\ ent = RecordNo(data, NumLines(data))
    /\ pos = Len(data)

----------------------------------------------------------------------------
\* C35: if the last record of the file has a timestamp later than the
\* current time, the hmm invocation fails with the clock-skew error and the
\* file content is unchanged: no record is appended.
C35_SkewRejectsWrite ==
    [][(/\ op' = "hmm"
        /\ data # <<>>
        /\ RecordNo(data, NumLines(data)).datetime > arg')
         => (ret' = SKEW /\ data' = data)]_vars

----------------------------------------------------------------------------
\* C36: when two hmm invocations run on the same file, the exclusive lock
\* makes each invocation's read of the last record, its clock-skew check
\* and its append one critical section: the two are never inside it
\* together, and when both have succeeded the file is the original file
\* followed by the two rows, each whole.
C36_WritersTakeTurns ==
    /\ ~(op[1] \in Critical /\ op[2] \in Critical)
    /\ (\A p \in Writers : op[p] = "exited" /\ ret[p] = OK)
          => (Len(out) = 2 /\ data = pre \o out[1] \o out[2])

C36_Witness ==
    /\ \A p \in Writers : op[p] = "exited" /\ ret[p] = OK
    /\ pre # <<>>
    /\ Len(out) = 2
    /\ out[1] # out[2]
    /\ data = pre \o out[1] \o out[2]

----------------------------------------------------------------------------
\* C37: rand_entry on an empty file completes normally and returns none, so
\* that hmmq --random prints nothing, and on a non-empty well-formed file it
\* returns a record of the file for every offset drawn below the length.
C37_RandEntryOfFile ==
    (op \in {"rand_entry", "hmmq_random"})
        => IF data = <<>>
           THEN ret # PANIC /\ ent = NoEntry /\ out = <<>>
           ELSE \E k \in 1..NumLines(data) : ent = RecordNo(data, k)

----------------------------------------------------------------------------
\* C38: len() and is_empty() leave the cursor where it was, for every cursor
\* position, positions past the end of the file included.
C38_LenKeepsCursor ==
    (op \in {"len", "is_empty"}) => pos = pre

C38_Witness ==
    /\ op = "is_empty"
    /\ data # <<>>
    /\ pre > Len(data)
    /\ pos = pre
    /\ ret = 0

=============================================================================
